---- MODULE Spec2Model ----
(***************************************************************************)
(* A model of src/index.ts: the class State (val, subscribers, set,        *)
(* update, subscribe and the unsubscribe closure it returns), createState  *)
(* and useState (a Vue ref, its get/set closures and the subscription that *)
(* onUnmounted releases).                                                  *)
(*                                                                         *)
(* JavaScript runs one call at a time, so a call that runs subscriber      *)
(* callbacks is modelled as a stack of forEach frames: set/update pushes a *)
(* frame, every callback invocation is one step, a callback that calls set *)
(* again pushes a nested frame, and a frame is popped when its forEach     *)
(* ends.  The client's calls (set, update, subscribe, ...) are taken only  *)
(* when the stack is empty.                                                *)
(***************************************************************************)
EXTENDS Integers, Sequences, FiniteSets, TLC

\* ------------------------------------------------------------ bounds
\* subscribe / useState calls made in one run
MaxRegs == 2
RegIds == 1..MaxRegs

\* ------------------------------------------------------------ values
\* JavaScript values of type S, tagged by their runtime type
Null == [t |-> "null"]
Undefined == [t |-> "undefined"]
Num(n) == [t |-> "num", n |-> n]
Obj(a, b) == [t |-> "obj", field1 |-> a, field2 |-> b]
Func(f) == [t |-> "fn", f |-> f]

Nums == {Num(0), Num(1)}
Objs == {Obj(0, "str"), Obj(0, "x")}
Funcs == {Func("inc")}
\* a promise of a value (index.d.ts SetStateAction), by its identity
Promise(p) == [t |-> "promise", p |-> p]
PromiseIds == {"p1", "p2"}
Promises == {Promise(p) : p \in PromiseIds}
\* the value a promise resolves to
ResolvesTo(p) == Num(1)
\* the deletion marker none (index.d.ts 47)
None == [t |-> "none"]
\* a JavaScript boolean
Bool(b) == [t |-> "bool", b |-> b]
\* what a caller can pass to set: plain data, or (index.d.ts SetStateAction) a function
DataValues == {Null} \cup Nums \cup Objs
Values == DataValues \cup Funcs

\* the updater  p => p + 1
Inc(v) == Num(v.n + 1)

\* the functions a caller passes to update: p => p + 1, p => p, and
\* () => { throw new Error() }
Ops == {"inc", "id", "fail"}
\* the call op(v) throws
OpThrows(op, v) == op = "fail"
\* the callers of this model keep the numbers within Nums
OpDefined(op, v) == op = "inc" => (v.t = "num" /\ Inc(v) \in Nums)
Apply(op, v) == IF op = "inc" THEN Inc(v) ELSE v

\* ------------------------------------------------------------ callbacks
\* A subscriber is a function value; indexOf compares function identity.
\* useState's set closure is a fresh function per call (id = its handle);
\* a client callback is one function however often it is subscribed (id 0).
NoFn == [kind |-> "none", id |-> 0]
HookFn(r) == [kind |-> "hook", id |-> r]
ClientFn(kind) == [kind |-> kind, id |-> 0]
\* what the client's callbacks do when invoked:
\*   log   nothing to the state
\*   once  calls its own unsubscribe function
\*   fix   calls state.set(FixValue) unless it was handed FixValue
\*   boom  throws
\*   add   calls state.subscribe(late) the first time it is invoked and drops
\*         the function subscribe returns
ClientKinds == {"log", "once", "fix", "boom", "add"}
FixValue == Null
\* the callback that add subscribes; it only observes
LateFn == ClientFn("late")

VARIABLES
  val,          \* State.val
  subscribers,  \* State.subscribers
  value,        \* useState: the ref of each handle (value.value); values are
                \* compared by content, as Vue's ref hands back an object it wraps
  tok,          \* each subscribe/useState call: its state and the function it passed
  stack,        \* forEach frames of the calls in progress, outermost first
  last,         \* the handle.set, batch or failed update call the client has just made
                \* (observation only)
  promise,      \* the client's promises: new, pending (handed to set), resolved, rejected
  destroyCalled \* the client has called destroy (observation only)

vars == <<val, subscribers, value, tok, stack, last, promise, destroyCalled>>

NoCall == [op |-> "none"]

\* ------------------------------------------------------------ helpers
\* Array.prototype.indexOf: first index (1-based here) of fn, 0 when absent
indexOf(s, fn) ==
  IF \E i \in 1..Len(s) : s[i] = fn
  THEN CHOOSE i \in 1..Len(s) : s[i] = fn /\ \A j \in 1..(i - 1) : s[j] # fn
  ELSE 0

\* Array.prototype.splice(index, 1)
splice(s, i) == [j \in 1..(Len(s) - 1) |-> IF j < i THEN s[j] ELSE s[j + 1]]

\* the closure subscribe returns (index.ts 28-33)
unsubscribeFn(s, fn) == IF indexOf(s, fn) # 0 THEN splice(s, indexOf(s, fn)) ELSE s

\* the registration as it would be with unshift: the newest subscriber first
pushFront(s, fn) == <<fn>> \o s

\* Array.prototype.push
push(s, fn) == Append(s, fn)

Count(s, fn) == Cardinality({i \in 1..Len(s) : s[i] = fn})

Idle == stack = <<>>
Top == stack[Len(stack)]

FreeRegs == {r \in RegIds : tok[r].st = "free"}
\* tokens are handed out in order
NextReg == CHOOSE r \in FreeRegs : \A q \in FreeRegs : r <= q

LiveRegs == {r \in RegIds : tok[r].st = "live"}

\* a forEach frame: len is read once, k is the next index (0-based)
Frame(op, arg, prev) ==
  [op |-> op, arg |-> arg, prev |-> prev,
   len |-> Len(subscribers), k |-> 0,
   start |-> subscribers, live |-> LiveRegs,
   seen |-> <<>>, got |-> Undefined,
   wrote |-> FALSE, edited |-> FALSE, added |-> FALSE, thrown |-> FALSE]

\* ------------------------------------------------------------ Init
\* createState(source): new State(source), no subscribers
Init ==
  /\ val \in DataValues
  /\ subscribers = <<>>
  /\ value = [r \in RegIds |-> Undefined]
  /\ tok = [r \in RegIds |-> [st |-> "free", fn |-> NoFn]]
  /\ stack = <<>>
  /\ last = NoCall
  /\ promise = [p \in PromiseIds |-> "new"]
  /\ destroyCalled = FALSE

\* ------------------------------------------------------------ client calls
\* State.value: get value() { return this.val }
stateValue == val

\* set as it would be with a truthiness guard, if (value) this.val = value
setIfTruthy(v) ==
  /\ Idle
  /\ val' = IF v \in {Null, Num(0)} THEN val ELSE v
  /\ stack' = <<Frame("set", v, val)>>
  /\ last' = NoCall
  /\ UNCHANGED <<subscribers, value, tok, promise, destroyCalled>>

\* State.set(value): this.val = value, then forEach over the subscribers
set(v) ==
  /\ Idle
  /\ val' = v
  /\ stack' = <<Frame("set", v, val)>>
  /\ last' = NoCall
  /\ UNCHANGED <<subscribers, value, tok, promise, destroyCalled>>

\* update as it would be if it caught the failure of op and went on,
\* try { this.val = op(this.val) } catch {}; then forEach
updateSwallows(op) ==
  /\ Idle
  /\ OpDefined(op, val)
  /\ IF OpThrows(op, val)
     THEN /\ val' = val
          /\ stack' = <<Frame("update", val, val)>>
          /\ last' = [op |-> "update", threw |-> TRUE, val |-> val]
     ELSE /\ val' = Apply(op, val)
          /\ stack' = <<Frame("update", Apply(op, val), val)>>
          /\ last' = NoCall
  /\ UNCHANGED <<subscribers, value, tok, promise, destroyCalled>>

\* State.update(op): this.val = op(this.val), then forEach; when op throws,
\* the exception leaves update before the assignment and before forEach
update(op) ==
  /\ Idle
  /\ OpDefined(op, val)
  /\ IF OpThrows(op, val)
     THEN /\ last' = [op |-> "update", threw |-> TRUE, val |-> val]
          /\ UNCHANGED <<val, stack>>
     ELSE /\ val' = Apply(op, val)
          /\ stack' = <<Frame("update", Apply(op, val), val)>>
          /\ last' = NoCall
  /\ UNCHANGED <<subscribers, value, tok, promise, destroyCalled>>

\* subscribe as it would be if it ran a notification for the new subscriber,
\* this.subscribers.push(sub); this.subscribers.forEach(s => s(this.val))
subscribeNotifies(kind) ==
  /\ Idle
  /\ FreeRegs # {}
  /\ subscribers' = push(subscribers, ClientFn(kind))
  /\ tok' = [tok EXCEPT ![NextReg] = [st |-> "live", fn |-> ClientFn(kind)]]
  /\ stack' = <<[Frame("set", val, val) EXCEPT !.len = Len(subscribers) + 1,
                                                !.start = push(subscribers, ClientFn(kind))]>>
  /\ last' = NoCall
  /\ UNCHANGED <<val, value, promise, destroyCalled>>

\* State.subscribe(sub) called by the client with one of its callbacks
subscribe(kind) ==
  /\ Idle
  /\ FreeRegs # {}
  /\ subscribers' = push(subscribers, ClientFn(kind))
  /\ tok' = [tok EXCEPT ![NextReg] = [st |-> "live", fn |-> ClientFn(kind)]]
  /\ last' = NoCall
  /\ UNCHANGED <<val, value, stack, promise, destroyCalled>>

\* the client calls the function subscribe returned to it, any number of times
unsubscribe(r) ==
  /\ Idle
  /\ tok[r].st \in {"live", "released"}
  /\ tok[r].fn.kind \in ClientKinds
  /\ subscribers' = unsubscribeFn(subscribers, tok[r].fn)
  /\ tok' = [tok EXCEPT ![r].st = "released"]
  /\ last' = NoCall
  /\ UNCHANGED <<val, value, stack, promise, destroyCalled>>

\* useState(state) with a State: ref(state.value), subscribe(set)
useState ==
  /\ Idle
  /\ FreeRegs # {}
  /\ value' = [value EXCEPT ![NextReg] = val]
  /\ subscribers' = push(subscribers, HookFn(NextReg))
  /\ tok' = [tok EXCEPT ![NextReg] = [st |-> "live", fn |-> HookFn(NextReg)]]
  /\ last' = NoCall
  /\ UNCHANGED <<val, stack, promise, destroyCalled>>

\* useState(source) with a plain value: ref(source), no subscription
useStateLocal(v) ==
  /\ Idle
  /\ FreeRegs # {}
  /\ value' = [value EXCEPT ![NextReg] = v]
  /\ tok' = [tok EXCEPT ![NextReg] = [st |-> "local", fn |-> NoFn]]
  /\ last' = NoCall
  /\ UNCHANGED <<val, subscribers, stack, promise, destroyCalled>>

\* the unmount as it would be if useState dropped the function subscribe
\* returns (no onUnmounted hook): the set closure stays registered
onUnmountedLeaks(r) ==
  /\ Idle
  /\ tok[r].st = "live"
  /\ tok[r].fn = HookFn(r)
  /\ tok' = [tok EXCEPT ![r].st = "released"]
  /\ last' = NoCall
  /\ UNCHANGED <<val, subscribers, value, stack, promise, destroyCalled>>

\* onUnmounted(() => unsubscribe()): Vue runs it once, when the component unmounts
onUnmounted(r) ==
  /\ Idle
  /\ tok[r].st = "live"
  /\ tok[r].fn = HookFn(r)
  /\ subscribers' = unsubscribeFn(subscribers, HookFn(r))
  /\ tok' = [tok EXCEPT ![r].st = "released"]
  /\ last' = NoCall
  /\ UNCHANGED <<val, value, stack, promise, destroyCalled>>

\* the handles whose component is mounted (a handle of a plain value has no subscription)
Mounted == {r \in RegIds : tok[r].st = "local" \/ (tok[r].st = "live" /\ tok[r].fn = HookFn(r))}

\* the handle's get: () => value.value
get(r) == value[r]

\* the client reads state.value: the getter returns this.val and assigns nothing
readValue ==
  /\ Idle
  /\ UNCHANGED vars

\* the component calls the handle's get: it returns value.value and assigns nothing
handleGet(r) ==
  /\ Idle
  /\ r \in Mounted
  /\ UNCHANGED vars

\* the handle's set, called by the component: value.value = newValue; triggerRef(value)
handleSet(r, v) ==
  /\ Idle
  /\ r \in Mounted
  /\ value' = [value EXCEPT ![r] = v]
  /\ last' = [op |-> "handle.set", arg |-> v, h |-> r]
  /\ UNCHANGED <<val, subscribers, tok, stack, promise, destroyCalled>>

\* what the component of a handle reads of the value get() returns; index.ts
\* keeps no record of it
used(r) == {"field1"}

\* The actions a client hands to batch: the values it sets, in order.
BatchActions == {<<Num(0), Num(1)>>, <<Obj(0, "x")>>}

\* state.batch(action): index.d.ts declares it, class State has no such member,
\* so the call is a call of undefined: a TypeError before action runs.
batch(action) ==
  /\ Idle
  /\ last' = [op |-> "batch", arg |-> action, seen |-> <<>>]
  /\ UNCHANGED <<val, subscribers, value, tok, stack, promise, destroyCalled>>

\* ------------------------------------------------------------ declared in index.d.ts
\* The members index.d.ts declares for a state and class State does not have:
\* a read of one of them is a read of a missing property.
\* StateMethods.promised
promised == Undefined
\* StateMethods.error
error == Undefined

\* State.set(promise): this.val = promise, then forEach; set attaches no
\* continuation (then/catch) to the promise
setPromise(p) ==
  /\ Idle
  /\ promise[p] = "new"
  /\ val' = Promise(p)
  /\ stack' = <<Frame("set", Promise(p), val)>>
  /\ promise' = [promise EXCEPT ![p] = "pending"]
  /\ last' = NoCall
  /\ UNCHANGED <<subscribers, value, tok, destroyCalled>>

\* settle as it would be with a continuation that has no stale check,
\* promise.then(v => this.set(v))
settleApplies(p, how) ==
  /\ Idle
  /\ promise[p] = "pending"
  /\ promise' = [promise EXCEPT ![p] = how]
  /\ val' = IF how = "resolved" THEN ResolvesTo(p) ELSE val
  /\ stack' = IF how = "resolved" THEN <<Frame("set", ResolvesTo(p), val)>> ELSE stack
  /\ last' = [op |-> "settle", p |-> p, how |-> how,
              stale |-> (val # Promise(p)), val |-> val]
  /\ UNCHANGED <<subscribers, value, tok, destroyCalled>>

\* A promise handed to set settles (between the client's calls): index.ts has
\* registered nothing on it, so no code of State runs.
settle(p, how) ==
  /\ Idle
  /\ promise[p] = "pending"
  /\ promise' = [promise EXCEPT ![p] = how]
  /\ last' = [op |-> "settle", p |-> p, how |-> how,
              stale |-> (val # Promise(p)), val |-> val]
  /\ UNCHANGED <<val, subscribers, value, tok, stack, destroyCalled>>

\* state.value.field2 = x: State.value hands out this.val itself, a plain
\* object, so the assignment succeeds and changes the state's value in place
rawWrite(x) ==
  /\ Idle
  /\ val.t = "obj"
  /\ val.field2 # x
  /\ val' = [val EXCEPT !.field2 = x]
  /\ last' = [op |-> "rawWrite", val |-> val, threw |-> FALSE]
  /\ UNCHANGED <<subscribers, value, tok, stack, promise, destroyCalled>>

\* state.destroy(): index.d.ts declares it, class State has no such member, so
\* the call is a TypeError and the state is as it was
destroy ==
  /\ Idle
  /\ ~destroyCalled
  /\ destroyCalled' = TRUE
  /\ last' = [op |-> "destroy"]
  /\ UNCHANGED <<val, subscribers, value, tok, stack, promise>>

\* ------------------------------------------------------------ forEach steps
Running == stack # <<>> /\ ~Top.thrown /\ Top.k < Top.len
\* the element forEach visits now; holes past the shrunk end are skipped
Present == Top.k + 1 <= Len(subscribers)
Current == subscribers[Top.k + 1]

\* the argument as it would be if forEach handed out the value of the call,
\* const v = this.val; this.subscribers.forEach(s => s(v))
passedAtCall == Top.arg

\* the argument of s(this.val): this.val is read at each invocation
passed == val

\* the callback at index k has been called with passed
Advance(fn) ==
  [stack EXCEPT ![Len(stack)].k = @ + 1, ![Len(stack)].seen = Append(@, fn),
                ![Len(stack)].got = passed]

\* s(this.val) where s is a handle's set closure
invokeHook ==
  /\ Running /\ Present
  /\ Current.kind = "hook"
  /\ value' = [value EXCEPT ![Current.id] = passed]
  /\ stack' = Advance(Current)
  /\ UNCHANGED <<val, subscribers, tok, last, promise, destroyCalled>>

\* s(this.val) where s only observes
invokeLog ==
  /\ Running /\ Present
  /\ Current.kind \in {"log", "late"}
  /\ stack' = Advance(Current)
  /\ UNCHANGED <<val, subscribers, value, tok, last, promise, destroyCalled>>

\* s(this.val) where s calls its unsubscribe function
invokeOnce ==
  /\ Running /\ Present
  /\ Current.kind = "once"
  /\ \E r \in LiveRegs :
       /\ tok[r].fn = Current
       /\ tok' = [tok EXCEPT ![r].st = "released"]
  /\ subscribers' = unsubscribeFn(subscribers, Current)
  /\ stack' = [i \in 1..Len(stack) |->
                 IF i = Len(stack)
                 THEN [stack[i] EXCEPT !.k = @ + 1, !.seen = Append(@, Current),
                                       !.got = passed, !.edited = TRUE]
                 ELSE [stack[i] EXCEPT !.edited = TRUE]]
  /\ UNCHANGED <<val, value, last, promise, destroyCalled>>

\* s(this.val) where s calls state.set(FixValue) unless handed FixValue
invokeFix ==
  /\ Running /\ Present
  /\ Current.kind = "fix"
  /\ IF passed = FixValue
     THEN /\ stack' = Advance(Current)
          /\ UNCHANGED val
     ELSE /\ val' = FixValue
          /\ stack' = Append([i \in 1..Len(stack) |->
                                IF i = Len(stack)
                                THEN [stack[i] EXCEPT !.k = @ + 1, !.seen = Append(@, Current),
                                                      !.got = passed, !.wrote = TRUE]
                                ELSE [stack[i] EXCEPT !.wrote = TRUE]],
                             Frame("set", FixValue, val))
  /\ UNCHANGED <<subscribers, value, tok, last, promise, destroyCalled>>

\* s(this.val) where s calls state.subscribe(late) on its first invocation:
\* push appends to the array forEach is iterating, whose range was fixed
\* when forEach began
invokeAdd ==
  /\ Running /\ Present
  /\ Current.kind = "add"
  /\ IF Count(subscribers, LateFn) = 0
     THEN /\ subscribers' = push(subscribers, LateFn)
          /\ stack' = [i \in 1..Len(stack) |->
                         IF i = Len(stack)
                         THEN [stack[i] EXCEPT !.k = @ + 1, !.seen = Append(@, Current),
                                               !.got = passed, !.added = TRUE]
                         ELSE [stack[i] EXCEPT !.added = TRUE]]
     ELSE /\ stack' = Advance(Current)
          /\ UNCHANGED subscribers
  /\ UNCHANGED <<val, value, tok, last, promise, destroyCalled>>

\* s(this.val) where s throws: nothing in index.ts catches, so the exception
\* leaves every forEach in progress and is on its way to the client's call
invokeBoom ==
  /\ Running /\ Present
  /\ Current.kind = "boom"
  /\ stack' = <<[stack[1] EXCEPT !.thrown = TRUE,
                                 !.seen = IF Len(stack) = 1 THEN Append(@, Current) ELSE @,
                                 !.got = IF Len(stack) = 1 THEN passed ELSE @]>>
  /\ UNCHANGED <<val, subscribers, value, tok, last, promise, destroyCalled>>

\* the client's set/update call ends with the exception
throw ==
  /\ stack # <<>>
  /\ Top.thrown
  /\ stack' = <<>>
  /\ UNCHANGED <<val, subscribers, value, tok, last, promise, destroyCalled>>

\* forEach: index k is no longer in the array
skipHole ==
  /\ Running /\ ~Present
  /\ stack' = [stack EXCEPT ![Len(stack)].k = @ + 1]
  /\ UNCHANGED <<val, subscribers, value, tok, last, promise, destroyCalled>>

\* forEach is over: set/update returns
return ==
  /\ stack # <<>>
  /\ ~Top.thrown
  /\ Top.k >= Top.len
  /\ stack' = SubSeq(stack, 1, Len(stack) - 1)
  /\ UNCHANGED <<val, subscribers, value, tok, last, promise, destroyCalled>>

Next ==
  \/ \E v \in Values : set(v)
  \/ \E op \in Ops : update(op)
  \/ \E kind \in ClientKinds : subscribe(kind)
  \/ \E r \in RegIds : unsubscribe(r)
  \/ useState
  \/ \E v \in DataValues : useStateLocal(v)
  \/ \E r \in RegIds : onUnmounted(r)
  \/ \E r \in RegIds, v \in DataValues : handleSet(r, v)
  \/ \E action \in BatchActions : batch(action)
  \/ readValue
  \/ \E r \in RegIds : handleGet(r)
  \/ invokeHook
  \/ invokeLog
  \/ invokeOnce
  \/ invokeFix
  \/ invokeAdd
  \/ invokeBoom
  \/ throw
  \/ skipHole
  \/ return

Spec == Init /\ [][Next]_vars

\* The state used with the values and members index.d.ts declares (promises,
\* none, raw writes, destroy), observed by client callbacks that only observe.
\* createState(promise) is among the initial states.
InitExt ==
  /\ \/ /\ val \in DataValues
        /\ promise = [p \in PromiseIds |-> "new"]
     \/ /\ val = Promise("p1")
        /\ promise = [p \in PromiseIds |-> IF p = "p1" THEN "pending" ELSE "new"]
  /\ subscribers = <<>>
  /\ value = [r \in RegIds |-> Undefined]
  /\ tok = [r \in RegIds |-> [st |-> "free", fn |-> NoFn]]
  /\ stack = <<>>
  /\ last = NoCall
  /\ destroyCalled = FALSE

NextExt ==
  \/ \E v \in DataValues \cup {None} : set(v)
  \/ \E p \in PromiseIds : setPromise(p)
  \/ \E p \in PromiseIds, how \in {"resolved", "rejected"} : settle(p, how)
  \/ \E x \in {"str", "x"} : rawWrite(x)
  \/ destroy
  \/ subscribe("log")
  \/ \E r \in RegIds : unsubscribe(r)
  \/ invokeLog
  \/ return

SpecExt == InitExt /\ [][NextExt]_vars

\* ------------------------------------------------------------ observations
\* the client's own call (the outermost frame)
Call == stack[1]
\* the client's set/update call has run its forEach to the end and returns
AtReturn == Len(stack) = 1 /\ ~Top.thrown /\ Top.k >= Top.len
\* the client's set/update call is over, by return or by exception
AtEnd == Len(stack) = 1 /\ (Top.thrown \/ Top.k >= Top.len)

Fns(regs) == {tok[r].fn : r \in regs}
\* the subscriptions among regs that passed fn
Regs(regs, fn) == {r \in regs : tok[r].fn = fn}
SeqRange(s) == {s[i] : i \in 1..Len(s)}
\* the handles of useState(state) whose component is mounted
MountedHooks == {r \in RegIds : tok[r].st = "live" /\ tok[r].fn = HookFn(r)}

\* some subscribe call that passed f was made before some that passed g
SubscribedBefore(f, g) ==
  \E a, b \in RegIds : a < b /\ tok[a].fn = f /\ tok[b].fn = g

Fields == {"field1", "field2"}
\* the fields in which two objects differ
Changed(a, b) == {f \in Fields : a[f] # b[f]}

\* ------------------------------------------------------------ claims

\* C1: when a set/update call returns, the callback of every subscription
\* that was registered when the call was made has been invoked during the call.
C1_NotifiedBeforeReturn ==
  AtReturn =>
    \A i \in 1..Len(Call.start) :
      Count(Call.seen, Call.start[i]) >= Count(Call.start, Call.start[i])

\* C2: with no callback calling subscribe, unsubscribe or set, a set/update call
\* invokes each callback once per subscription of it that is live at the call
\* (subscribed, its unsubscribe function not called), and no other callback.
C2_ExactlyOncePerLive ==
  (AtReturn /\ ~Call.edited /\ ~Call.wrote /\ ~Call.added) =>
    \A fn \in Fns(Call.live) \cup SeqRange(Call.seen) :
      Count(Call.seen, fn) = Cardinality(Regs(Call.live, fn))

\* C3: after handle.set(V) on a handle of useState(state), the source state
\* reads V and every mounted handle of the state reads V.
C3_HandleWriteReachesSource ==
  (last.op = "handle.set" /\ last.h \in MountedHooks) =>
    /\ stateValue = last.arg
    /\ \A r \in MountedHooks : get(r) = last.arg

\* C4: when state.set(V) returns (no callback having written to the state),
\* get() of every mounted handle of useState(state) returns V.
C4_MountedHandlesFollow ==
  (AtReturn /\ Call.op = "set" /\ ~Call.wrote) =>
    \A r \in MountedHooks : get(r) = Call.arg

\* C5: a read right after set(V) returns V: State.value after State.set(V), when
\* no subscriber callback wrote to the state, and handle.get() after handle.set(V).
C5_SetThenGet ==
  /\ (AtEnd /\ Call.op = "set" /\ ~Call.wrote) => stateValue = Call.arg
  /\ last.op = "handle.set" => get(last.h) = last.arg

\* C5 witness: set(null) on a state holding an object is at its return, with a
\* subscriber invoked and none having written.
C5_Witness_State ==
  /\ AtReturn /\ Call.op = "set" /\ ~Call.wrote
  /\ Call.arg = Null /\ Call.prev \in Objs
  /\ Len(Call.seen) >= 1

\* C6: a set(V) made when the value is already V leaves the value V and invokes
\* each callback once per live subscription of it (no callback having written).
C6_SameValueStillNotifies ==
  (AtReturn /\ Call.op = "set" /\ Call.prev = Call.arg /\ ~Call.wrote) =>
    /\ stateValue = Call.arg
    /\ \A fn \in Fns(Call.live) :
         Count(Call.seen, fn) = Cardinality(Regs(Call.live, fn))

\* C7: set called with a function applies it to the current value: after
\* set(p => p + 1) on a number n the value is n + 1.
C7_SetAppliesFunction ==
  (AtReturn /\ Call.op = "set" /\ Call.arg = Func("inc") /\ Call.prev.t = "num"
     /\ ~Call.wrote) =>
    stateValue = Inc(Call.prev)

\* C8: a subscription that is live throughout a set/update call has its callback
\* invoked by it, and a callback all of whose subscriptions were released before
\* the call is not invoked by it.
C8_LiveUntilReleased ==
  AtReturn =>
    \A r \in RegIds :
      /\ (r \in Call.live /\ tok[r].st = "live") => Count(Call.seen, tok[r].fn) >= 1
      /\ (tok[r].st = "released" /\ Regs(Call.live, tok[r].fn) = {})
           => Count(Call.seen, tok[r].fn) = 0

C10_BatchNotifiesOnce ==
  last.op = "batch" =>
    /\ stateValue = last.arg[Len(last.arg)]
    /\ \A i \in 1..Len(subscribers) : Count(last.seen, subscribers[i]) = 1

\* C11: while the state holds a pending promise (created with it or set to it),
\* promised reads true and the value reads undefined; once that promise has
\* resolved, promised reads false and the value is the resolved value.
C11_PromisePendingThenResolved ==
  /\ (Idle /\ val.t = "promise" /\ promise[val.p] = "pending")
       => (promised = Bool(TRUE) /\ stateValue = Undefined)
  /\ (last.op = "settle" /\ ~last.stale /\ last.how = "resolved")
       => (promised = Bool(FALSE) /\ stateValue = ResolvesTo(last.p))

\* C12: the settlement (resolution or rejection) of a promise that was set and
\* then superseded by another set leaves the value as it was and starts no
\* notification.
C12_StaleSettlementIgnored ==
  (last.op = "settle" /\ last.stale) =>
    (stateValue = last.val /\ stack = <<>>)

\* C12 witness: p1 was set, superseded by the promise p2, and has then settled
\* while a subscriber is registered.
C12_Witness_Superseded ==
  /\ last.op = "settle" /\ last.stale /\ last.p = "p1"
  /\ val = Promise("p2")
  /\ Len(subscribers) >= 1

\* C13: no set/update call ends with the exception of a subscriber callback.
C13_CallbackFailureContained ==
  \A i \in 1..Len(stack) : ~stack[i].thrown

\* C14: a write of a property into the raw value read from the state fails with
\* an error and leaves the state's value as it was.
C14_RawWriteFails ==
  last.op = "rawWrite" => (last.threw /\ stateValue = last.val)

\* C15: no read of the state returns none, and a set(none) at the root leaves
\* the state promised.
C15_NoneNeverStored ==
  /\ stateValue # None
  /\ (AtReturn /\ Call.arg = None) => promised = Bool(TRUE)

\* C16: once destroy() has been called, no set or update runs on the state and
\* no subscriber is notified.
C16_DestroyedIsUnusable ==
  destroyCalled => stack = <<>>

\* C17: when the first callback of a set/update call is about to run the value
\* is the new one, and every callback is handed the value a read of the state
\* returns at the moment it is invoked.
C17_PassedCurrentValue ==
  /\ [](\A i \in 1..Len(stack) :
          (stack[i].k = 0 /\ stack[i].seen = <<>> /\ i = Len(stack))
            => stateValue = stack[i].arg)
  /\ [][(/\ stack # <<>>
         /\ Len(stack') >= Len(stack)
         /\ Len(stack'[Len(stack)].seen) = Len(Top.seen) + 1)
          => stack'[Len(stack)].got = stateValue]_vars

\* C17 witness: a handle's set closure has been invoked after an earlier
\* callback of the same round wrote to the state, and was handed the value
\* written, not the value of the call.
C17_Witness_AfterWrite ==
  /\ Len(stack) = 1 /\ Call.wrote /\ Call.seen # <<>>
  /\ Call.seen[Len(Call.seen)].kind = "hook"
  /\ Call.got = FixValue /\ Call.arg # FixValue
  /\ get(Call.seen[Len(Call.seen)].id) = FixValue

\* C18: a read (State.value, handle.get()) changes nothing; a step of the
\* client that changes the subscriber list or the subscriptions (subscribe,
\* unsubscribe, useState, unmount) leaves the value and the refs of the mounted
\* handles as they were and starts no notification.
C18_ReadsAndSubscriptionsFrame ==
  [][/\ (readValue \/ \E r \in RegIds : handleGet(r))
          => UNCHANGED <<val, subscribers, value, tok, stack>>
     /\ (Idle /\ (subscribers' # subscribers \/ tok' # tok))
          => /\ val' = val
             /\ stack' = <<>>
             /\ \A r \in Mounted : value'[r] = value[r]]_vars

\* C18 witness: with a handle mounted, a client callback has been subscribed and
\* a subscription has been released.
C18_Witness_SubscribedAndReleased ==
  /\ Idle
  /\ Mounted # {}
  /\ \E r \in RegIds : tok[r].st = "released"

\* C19: when a callback has called an unsubscribe function during a set/update
\* call (and none has written), every function still registered at the return
\* has been invoked once per registration of it.
C19_NoSubscriberSkipped ==
  (AtReturn /\ Call.edited /\ ~Call.wrote) =>
    \A i \in 1..Len(subscribers) :
      Count(Call.seen, subscribers[i]) = Count(subscribers, subscribers[i])

C21_UnsubscribeIdempotent ==
  \A fn \in Fns(LiveRegs) :
    Count(subscribers, fn) = Cardinality(Regs(LiveRegs, fn))

\* C22: the set closure of every mounted handle of useState(state) is registered
\* exactly once and that of an unmounted one not at all, so the registrations of
\* handles are as many as the mounted handles; with no other subscription made
\* they are all the registrations there are.
C22_OneRegistrationPerMountedHook ==
  /\ \A r \in RegIds :
       Count(subscribers, HookFn(r)) = IF r \in MountedHooks THEN 1 ELSE 0
  /\ Cardinality({i \in 1..Len(subscribers) : subscribers[i].kind = "hook"})
       = Cardinality(MountedHooks)
  /\ (\A r \in RegIds : tok[r].fn.kind \in {"none", "hook"})
       => Len(subscribers) = Cardinality(MountedHooks)

\* C22 witness: two components were mounted, a write reached both, and the one
\* mounted first has been unmounted: one registration is left, the other's.
C22_Witness_MountedAndUnmounted ==
  /\ Idle
  /\ tok[1].fn = HookFn(1) /\ tok[1].st = "released"
  /\ 2 \in MountedHooks
  /\ subscribers = <<HookFn(2)>>
  /\ get(1) = get(2) /\ get(2) = stateValue

\* C23: when a set/update call ends with the exception of a callback (no
\* callback having unsubscribed or written), every callback registered when the
\* call was made has been invoked during it, those after the failing one too.
C23_LaterSubscribersStillNotified ==
  (Len(stack) = 1 /\ Call.thrown /\ ~Call.edited /\ ~Call.wrote) =>
    \A i \in 1..Len(Call.start) : Count(Call.seen, Call.start[i]) >= 1

\* C24: an update whose function threw has left the value as it was and has
\* started no notification.
C24_FailedUpdateChangesNothing ==
  (last.op = "update" /\ last.threw) =>
    (stateValue = last.val /\ stack = <<>>)

\* C24 witness: update(() => { throw }) has been called on a state holding an
\* object, with a subscriber registered and a handle mounted.
C24_Witness_OpThrew ==
  /\ last.op = "update" /\ last.threw
  /\ last.val \in Objs
  /\ MountedHooks # {}
  /\ Len(subscribers) = MaxRegs

\* C25: a callback subscribed by a callback during a set/update call is not
\* invoked by the forEach of a call that was in progress then, and every later
\* set/update call, made with it registered, has invoked it exactly once when
\* the call ends.
C25_LateSubscriberWaitsForNextRound ==
  /\ \A i \in 1..Len(stack) :
       stack[i].added => Count(stack[i].seen, LateFn) = 0
  /\ (AtEnd /\ Count(Call.start, LateFn) = 1) => Count(Call.seen, LateFn) = 1

====
